---------------------------- MODULE Spec2Model ----------------------------
(***************************************************************************)
(* Browser client of the PMA weather app (frontend/src/App.jsx and         *)
(* frontend/src/api.js) as a state machine.                                *)
(*                                                                         *)
(* JavaScript strings are sequences of characters.  A few multi-character  *)
(* lexemes are kept as one element where the code never looks inside them  *)
(* ("Error", "HTTP", a JSON key with its colon, a JSON string literal).    *)
(* An async function is one action per segment between its awaits; the     *)
(* requests it is waiting for are the messages in flight.                  *)
(***************************************************************************)
EXTENDS Integers, Sequences, FiniteSets, TLC

VARIABLES
    location,     \* App.jsx:38   text of the location input
    error,        \* App.jsx:41   message shown in the warning tag ('' = <<>>)
    current,      \* App.jsx:40   weather response shown, or NullVal
    pois,         \* App.jsx:49   nearby places shown ([] = EmptyList)
    astro,        \* App.jsx:49   astronomy payload shown, or NullVal
    air,          \* App.jsx:49   air-quality payload shown, or NullVal
    records,      \* App.jsx:42   record list shown
    selectedId,   \* App.jsx:43   id of the selected record, or NoId
    range,        \* App.jsx:44   date range of the two date inputs
    cands,        \* App.jsx:45   suggestion candidates
    openSug,      \* App.jsx:45   suggestion box open
    typingTimer,  \* App.jsx:46   handle of the last suggestion timer, or NoTimer
    timers,       \* browser timer table: the timeouts not yet fired or cleared
    weatherReqs,  \* getCurrent requests in flight (fetchCurrentFor at its await)
    enrichReqs,   \* getNearby / getAstronomy / getAir requests in flight
    searchReqs,   \* searchLocations requests in flight
    recordReqs,   \* record API requests and responses in flight
    exportReqs,   \* exportData requests in flight
    geolocation,  \* whether the browser has navigator.geolocation
    geoPending,   \* getCurrentPosition calls whose callback has not run yet
    nextCall,     \* number of fetchCurrentFor calls started so far
    store,        \* server: the table of records
    nextId,       \* server: the next record id
    typedAge,     \* ms since the location input was set or changed (capped)
    op            \* history: the last step of the suggestion and export handlers

vars == << location, error, current, pois, astro, air, records, selectedId,
           range, cands, openSug, typingTimer, timers, weatherReqs, enrichReqs,
           searchReqs, recordReqs, exportReqs, geolocation, geoPending, nextCall, store,
           nextId, typedAge, op >>

weatherVars == << current, pois, astro, air, weatherReqs, enrichReqs,
                  geolocation, geoPending, nextCall >>
suggestVars == << cands, openSug, typingTimer, timers, searchReqs, typedAge >>
recordVars  == << records, selectedId, range, recordReqs, store, nextId >>

NullVal == [t |-> "null"]
NoId == 0
EmptyStr == << >>
EmptyList == << >>

---------------------------------------------------------------------------
(* Strings *)

WS == {" ", "\t"}
Digits == {"0", "1", "2", "3", "4", "5", "6", "7", "8", "9"}

\* The sequences over S of length at most n.
SeqsUpTo(S, n) == UNION {[1..k -> S] : k \in 0..n}

Drop(s, n) == SubSeq(s, n + 1, Len(s))

RECURSIVE SkipWS(_)
SkipWS(s) == IF s # << >> /\ Head(s) \in WS THEN SkipWS(Tail(s)) ELSE s

RECURSIVE DropTrailingWS(_)
DropTrailingWS(s) ==
    IF s # << >> /\ s[Len(s)] \in WS
    THEN DropTrailingWS(SubSeq(s, 1, Len(s) - 1))
    ELSE s

\* String.prototype.trim
Trim(s) == DropTrailingWS(SkipWS(s))

---------------------------------------------------------------------------
(* App.jsx: input classification *)

ZipDigits == 5

RECURSIVE SkipDigits(_)
SkipDigits(s) == IF s # << >> /\ Head(s) \in Digits THEN SkipDigits(Tail(s)) ELSE s

DropOptional(s, c) == IF s # << >> /\ Head(s) = c THEN Tail(s) ELSE s

\* -?\d+\.?\d* at the head of s: [ok, rest].  Each greedy part is followed by a
\* part that starts with another character, so nothing is given back.
MatchNumber(s) ==
    LET a == DropOptional(s, "-") IN
    IF a = << >> \/ Head(a) \notin Digits THEN [ok |-> FALSE]
    ELSE [ok |-> TRUE, rest |-> SkipDigits(DropOptional(SkipDigits(a), "."))]

\* COORD_RE.test(s):  /^\s*-?\d+\.?\d*\s*,\s*-?\d+\.?\d*\s*$/
COORD_RE(s) ==
    LET a == MatchNumber(SkipWS(s)) IN
    /\ a.ok
    /\ LET b == SkipWS(a.rest) IN
       /\ b # << >>
       /\ Head(b) = ","
       /\ LET c == MatchNumber(SkipWS(Tail(b))) IN
          /\ c.ok
          /\ SkipWS(c.rest) = << >>

\* ZIP_RE.test(s):  /^\s*\d{5}\s*$/
ZIP_RE(s) ==
    LET a == SkipWS(s) IN
    /\ Len(a) >= ZipDigits
    /\ \A i \in 1..ZipDigits : a[i] \in Digits
    /\ SkipWS(Drop(a, ZipDigits)) = << >>

\* isWordyQuery without the ZIP test.
isWordyQuery_NoZip(q) ==
    LET s == Trim(q) IN
    IF s = EmptyStr THEN FALSE
    ELSE IF COORD_RE(s) THEN FALSE
    ELSE TRUE

isWordyQuery(q) ==
    LET s == Trim(q) IN
    IF s = EmptyStr THEN FALSE
    ELSE IF COORD_RE(s) THEN FALSE
    ELSE IF ZIP_RE(s) THEN FALSE
    ELSE TRUE

---------------------------------------------------------------------------
(* JSON, over the lexemes  {  }  "detail":  "m"  ""  []  and whitespace *)

LBrace == "{"
RBrace == "}"
DetailKey == "\"detail\":"
StrLit == "\"m\""
EmptyLit == "\"\""
ArrLit == "[]"

JStr(v) == [t |-> "str", v |-> v]
JArr == [t |-> "arr"]
JObj(members) == [t |-> "obj", members |-> members]
NoMembers == << >>
Undefined == [t |-> "undefined"]
ParseFail == [ok |-> FALSE]

\* One JSON value at the head of s: [ok, val, rest].
RECURSIVE ParseValue(_)
ParseValue(s0) ==
    LET s == SkipWS(s0) IN
    IF s = << >> THEN ParseFail
    ELSE IF Head(s) = StrLit THEN [ok |-> TRUE, val |-> JStr(<<"m">>), rest |-> Tail(s)]
    ELSE IF Head(s) = EmptyLit THEN [ok |-> TRUE, val |-> JStr(EmptyStr), rest |-> Tail(s)]
    ELSE IF Head(s) = ArrLit THEN [ok |-> TRUE, val |-> JArr, rest |-> Tail(s)]
    ELSE IF Head(s) = LBrace THEN
        LET b == SkipWS(Tail(s)) IN
        IF b = << >> THEN ParseFail
        ELSE IF Head(b) = RBrace THEN [ok |-> TRUE, val |-> JObj(NoMembers), rest |-> Tail(b)]
        ELSE IF Head(b) = DetailKey THEN
            LET v == ParseValue(Tail(b)) IN
            IF ~v.ok THEN ParseFail
            ELSE LET c == SkipWS(v.rest) IN
                 IF c # << >> /\ Head(c) = RBrace
                 THEN [ok |-> TRUE, val |-> JObj(<<v.val>>), rest |-> Tail(c)]
                 ELSE ParseFail
        ELSE ParseFail
    ELSE ParseFail

\* JSON.parse: [ok, val]; ok = FALSE when it throws.
JSONParse(text) ==
    LET p == ParseValue(text) IN
    IF p.ok /\ SkipWS(p.rest) = << >> THEN [ok |-> TRUE, val |-> p.val] ELSE ParseFail

\* JSON.stringify without indentation.
RECURSIVE JSONStringify(_)
JSONStringify(v) ==
    IF v.t = "str" THEN (IF v.v = EmptyStr THEN <<EmptyLit>> ELSE <<StrLit>>)
    ELSE IF v.t = "arr" THEN <<ArrLit>>
    ELSE IF v.members = NoMembers THEN <<LBrace, RBrace>>
    ELSE <<LBrace, DetailKey>> \o JSONStringify(v.members[1]) \o <<RBrace>>

\* j?.detail of a parsed value
DetailOf(j) ==
    IF j.t = "obj" /\ j.members # NoMembers THEN j.members[1] ELSE Undefined

\* JavaScript truthiness of a parsed value
Truthy(v) ==
    IF v.t = "undefined" THEN FALSE
    ELSE IF v.t = "str" THEN v.v # EmptyStr
    ELSE TRUE

---------------------------------------------------------------------------
(* api.js: responses and errors *)

ResponseOk(r) == r.status \in 200..299

HttpStatusText(r) == <<"HTTP", " ", ToString(r.status)>>

Thrown(message) == [ok |-> FALSE, message |-> message]
Returned(val) == [ok |-> TRUE, val |-> val]

\* api.js handle(r).  On a non-ok response the try block always throws (JSON.parse
\* throws, or the Error built from the parsed body is thrown), and the bare catch
\* catches either and throws Error(text || `HTTP ${r.status}`).
handle(r) ==
    IF ~ResponseOk(r)
    THEN Thrown(IF r.body # EmptyStr THEN r.body ELSE HttpStatusText(r))
    ELSE LET p == JSONParse(r.body) IN
         Returned(IF p.ok THEN p.val ELSE JStr(r.body))

\* api.js exportData(fmt), once fetch has answered r.
exportData(fmt, r) ==
    IF fmt = "json" THEN handle(r)
    ELSE IF ~ResponseOk(r) THEN Thrown(r.body)
    ELSE Returned(JStr(r.body))

\* String(e) of an Error: Error.prototype.toString gives the name alone when the
\* message is empty.
ErrorToString(message) ==
    IF message = EmptyStr THEN <<"Error">> ELSE <<"Error", ":", " ">> \o message

\* s.match(/\{.*\}/s): from the first { to the last } after it.
NoMatch == [found |-> FALSE]

BraceMatch(s) ==
    LET opens  == {i \in 1..Len(s) : s[i] = LBrace}
        closes == {i \in 1..Len(s) : s[i] = RBrace}
    IN  IF opens = {} THEN NoMatch
        ELSE LET first == CHOOSE i \in opens : \A k \in opens : i <= k
                 after == {k \in closes : k > first}
             IN  IF after = {} THEN NoMatch
                 ELSE [found |-> TRUE,
                       text |-> SubSeq(s, first, CHOOSE k \in after : \A x \in after : x <= k)]

\* s.replace(/^Error:\s*/, '')
StripErrorPrefix(s) ==
    IF Len(s) >= 2 /\ s[1] = "Error" /\ s[2] = ":" THEN SkipWS(Drop(s, 2)) ELSE s

\* cleanErr that never looks for a JSON body.
cleanErr_RawOnly(message) == StripErrorPrefix(ErrorToString(message))

\* App.jsx cleanErr(e), e an Error with the given message.
cleanErr(message) ==
    LET s == ErrorToString(message)
        m == BraceMatch(s)
        j == IF m.found THEN JSONParse(m.text) ELSE ParseFail
        d == IF j.ok THEN DetailOf(j.val) ELSE Undefined
    IN  IF m.found /\ j.ok /\ Truthy(d)
        THEN (IF d.t = "str" THEN d.v ELSE JSONStringify(d))
        ELSE StripErrorPrefix(s)


---------------------------------------------------------------------------
(* App.jsx: export *)

MaxBodyLen == 4

Fmts == {"json", "csv", "xml", "md"}
BodyChars == {LBrace, RBrace, DetailKey, StrLit, EmptyLit, ArrLit, " ", "m"}

\* What the server can answer: a 2xx response (its body is downloaded and changes
\* no state), or a non-2xx response with any body.
OkResponses == [status : {200}, body : {<<"m">>}]
ErrorResponses == [status : {400, 500}, body : SeqsUpTo(BodyChars, MaxBodyLen)]
Responses == OkResponses \cup ErrorResponses

RemoveAt(s, i) == SubSeq(s, 1, i - 1) \o SubSeq(s, i + 1, Len(s))

\* onExport(fmt) after its await, for the request exportReqs[i] and the response it
\* gets: the download on success (no state of the app changes),
\* setError(cleanErr(e)) when exportData threw.
onExportSettled(i) ==
    LET fmt == exportReqs[i].fmt
        r   == exportReqs[i].resp
        res == exportData(fmt, r)
    IN  /\ exportReqs' = RemoveAt(exportReqs, i)
        /\ error' = IF res.ok THEN error ELSE cleanErr(res.message)
        /\ op' = [name |-> "onExportSettled", fmt |-> fmt, resp |-> r]
        /\ UNCHANGED << location, weatherVars, suggestVars, recordVars >>

NextExport == \E i \in 1..Len(exportReqs) : onExportSettled(i)

---------------------------------------------------------------------------
(* App.jsx: suggestions *)

NoTimer == 0
SuggestDelay == 300
MaxCands == 8
TickMs == 100
MaxQueryLen == 4
MaxSearches == 1

Min(a, b) == IF a < b THEN a ELSE b
Max(a, b) == IF a > b THEN a ELSE b

\* setTimeout's handle.  The browser never hands a handle out twice; the only handle
\* the app keeps is typingTimer, so the smallest number that is neither a pending
\* timer nor typingTimer stands for a handle never seen before.
FreshTimer ==
    CHOOSE n \in 1..(Cardinality(timers) + 2) :
        /\ n # typingTimer
        /\ \A t \in timers : t.id # n
        /\ \A k \in 1..(n - 1) : k = typingTimer \/ \E t \in timers : t.id = k

\* clearTimeout(handle)
ClearTimeout(id) == {t \in timers : t.id # id}

\* scheduleSuggest that leaves the previous timer running.
scheduleSuggest_NoClear(q) ==
    IF ~isWordyQuery(q)
    THEN /\ cands' = << >>
         /\ openSug' = FALSE
         /\ UNCHANGED << timers, typingTimer >>
    ELSE /\ timers' = timers \cup {[id |-> FreshTimer, q |-> q, left |-> SuggestDelay]}
         /\ typingTimer' = FreshTimer
         /\ UNCHANGED << cands, openSug >>

\* scheduleSuggest(q)
scheduleSuggest(q) ==
    LET cleared == IF typingTimer # NoTimer THEN ClearTimeout(typingTimer) ELSE timers IN
    IF ~isWordyQuery(q)
    THEN /\ cands' = << >>
         /\ openSug' = FALSE
         /\ timers' = cleared
         /\ UNCHANGED typingTimer
    ELSE /\ timers' = cleared \cup {[id |-> FreshTimer, q |-> q, left |-> SuggestDelay]}
         /\ typingTimer' = FreshTimer
         /\ UNCHANGED << cands, openSug >>

\* onChange of the location input: setLocation(v); scheduleSuggest(v)
onChange(v) ==
    /\ location' = v
    /\ scheduleSuggest(v)
    /\ typedAge' = 0
    /\ op' = [name |-> "onChange"]
    /\ UNCHANGED << error, searchReqs, weatherVars, recordVars, exportReqs >>

\* TickMs of time pass.
Tick ==
    /\ timers' = {[t EXCEPT !.left = Max(0, t.left - TickMs)] : t \in timers}
    /\ typedAge' = Min(SuggestDelay, typedAge + TickMs)
    /\ op' = [name |-> "Tick"]
    /\ UNCHANGED << location, error, cands, openSug, typingTimer, searchReqs,
                    weatherVars, recordVars, exportReqs >>

\* The callback of a due timer, up to its await: searchLocations(q) is sent.
suggestTimerFired(t) ==
    /\ t.left = 0
    /\ searchReqs < MaxSearches
    /\ timers' = timers \ {t}
    /\ searchReqs' = searchReqs + 1
    /\ op' = [name |-> "suggestTimerFired", q |-> t.q]
    /\ UNCHANGED << location, error, cands, openSug, typingTimer, typedAge,
                    weatherVars, recordVars, exportReqs >>

\* What searchLocations can settle with: a list of candidates, or an error.
SearchResults ==
    {[ok |-> TRUE, res |-> [i \in 1..n |-> i]] : n \in {0, 1, MaxCands + 1}}
        \cup {[ok |-> FALSE]}

\* The timer callback after its await.
searchSettled(r) ==
    /\ searchReqs > 0
    /\ searchReqs' = searchReqs - 1
    /\ IF r.ok
       THEN /\ cands' = SubSeq(r.res, 1, Min(MaxCands, Len(r.res)))
            /\ openSug' = (Len(r.res) > 0)
       ELSE /\ cands' = << >>
            /\ openSug' = FALSE
    /\ op' = [name |-> "searchSettled"]
    /\ UNCHANGED << location, error, typingTimer, timers, typedAge,
                    weatherVars, recordVars, exportReqs >>

\* What the input can become: a key typed at the end, the last character deleted,
\* the field cleared, or a text pasted over it.
QueryChars == {"1", ",", " ", "a"}
Pasted ==
    { <<"1", "2", "3", "4", "5">>, <<" ", "1", "2", "3", "4", "5", " ">>,
      <<"1", "2", "3", "4", "5", "6">>,
      <<"-", "1", ".", "5", ",", " ", "-", "2", ".">>,
      <<"1", ".", "5", ".", ",", "2">>, <<".", "5", ",", "2">> }
Edits(s) ==
    {Append(s, c) : c \in IF Len(s) < MaxQueryLen THEN QueryChars ELSE {}}
        \cup (IF s = << >> THEN {} ELSE {SubSeq(s, 1, Len(s) - 1), << >>})
        \cup Pasted

NextSuggest ==
    \/ \E v \in Edits(location) : onChange(v)
    \/ Tick
    \/ \E t \in timers : suggestTimerFired(t)
    \/ \E r \in SearchResults : searchSettled(r)

---------------------------------------------------------------------------
(* App.jsx: current weather and its enrichments *)

MaxCalls == 2

NoCoord == "null"
Kinds == {"nearby", "astronomy", "air"}

\* What /weather/current can answer with a 2xx: a body whose resolved location has
\* both coordinates, or lacks one of them.
ResolvedValues ==
    { [latitude |-> "40.71", longitude |-> "-74.01"],
      [latitude |-> "51.51", longitude |-> "-0.13"],
      [latitude |-> "40.71", longitude |-> NoCoord] }

\* A non-2xx response of the weather and enrichment endpoints.
WeatherErrorResponses == { [status |-> 404, body |-> <<LBrace, DetailKey, StrLit, RBrace>>] }

\* What getCurrent(loc) settles with for call c: the parsed body, tagged with the
\* call it answers, or what handle throws.
WeatherResults(c) ==
    {Returned([call |-> c, resolved |-> r]) : r \in ResolvedValues}
        \cup {handle(r) : r \in WeatherErrorResponses}

\* The guard with || for &&.
HasCoords_Either(lat, lon) == lat # NoCoord \/ lon # NoCoord

\* lat!=null&&lon!=null
HasCoords(lat, lon) == lat # NoCoord /\ lon # NoCoord

\* fetchCurrentFor(loc) up to its await: setError(''), and getCurrent(loc) is sent.
fetchCurrentFor(loc) ==
    /\ nextCall < MaxCalls
    /\ error' = EmptyStr
    /\ nextCall' = nextCall + 1
    /\ weatherReqs' = weatherReqs \cup {[call |-> nextCall + 1, loc |-> loc]}
    /\ UNCHANGED << current, pois, astro, air, enrichReqs >>

\* fetchCurrentFor after its await, for the request w and what it settled with.
weatherSettled(w, res) ==
    /\ weatherReqs' = weatherReqs \ {w}
    /\ IF res.ok
       THEN LET lat == res.val.resolved.latitude
                lon == res.val.resolved.longitude
            IN  /\ current' = res.val
                /\ enrichReqs' =
                     IF HasCoords(lat, lon)
                     THEN enrichReqs \cup
                            {[call |-> w.call, kind |-> k, lat |-> lat, lon |-> lon] : k \in Kinds}
                     ELSE enrichReqs
                /\ UNCHANGED error
       ELSE /\ error' = cleanErr(res.message)
            /\ UNCHANGED << current, enrichReqs >>
    /\ UNCHANGED op
    /\ UNCHANGED << location, pois, astro, air, geolocation, geoPending, nextCall,
                    suggestVars, recordVars, exportReqs >>

\* What an enrichment request e can settle with: its payload for the coordinates
\* asked (for nearby, with or without items), or an error.
EnrichResults(e) ==
    (IF e.kind = "nearby"
     THEN { [ok |-> TRUE, val |-> [items |-> <<[lat |-> e.lat, lon |-> e.lon]>>]],
            [ok |-> TRUE, val |-> [status |-> "ok"]] }
     ELSE { [ok |-> TRUE, val |-> [lat |-> e.lat, lon |-> e.lon]] })
        \cup {handle(r) : r \in WeatherErrorResponses}

\* r.items||[]
ItemsOrEmpty(r) == IF "items" \in DOMAIN r THEN r.items ELSE EmptyList

\* Enrichment whose catch reports the error.
enrichSettled_Reported(e, res) ==
    /\ enrichReqs' = enrichReqs \ {e}
    /\ IF res.ok
       THEN /\ pois' = IF e.kind = "nearby" THEN ItemsOrEmpty(res.val) ELSE pois
            /\ astro' = IF e.kind = "astronomy" THEN res.val ELSE astro
            /\ air' = IF e.kind = "air" THEN res.val ELSE air
            /\ UNCHANGED error
       ELSE /\ error' = cleanErr(res.message)
            /\ UNCHANGED << pois, astro, air >>
    /\ UNCHANGED op
    /\ UNCHANGED << location, current, weatherReqs, geolocation, geoPending,
                    nextCall, suggestVars, recordVars, exportReqs >>

\* The then / catch of the three enrichment promises of fetchCurrentFor.
enrichSettled(e, res) ==
    /\ enrichReqs' = enrichReqs \ {e}
    /\ IF res.ok
       THEN /\ pois' = IF e.kind = "nearby" THEN ItemsOrEmpty(res.val) ELSE pois
            /\ astro' = IF e.kind = "astronomy" THEN res.val ELSE astro
            /\ air' = IF e.kind = "air" THEN res.val ELSE air
       ELSE UNCHANGED << pois, astro, air >>
    /\ UNCHANGED op
    /\ UNCHANGED << location, error, current, weatherReqs, geolocation, geoPending,
                    nextCall, suggestVars, recordVars, exportReqs >>

\* fetchCurrent that tests the location without trimming it.
fetchCurrent_NoTrim ==
    /\ IF location = EmptyStr
       THEN /\ error' = <<"Please enter a location">>
            /\ UNCHANGED << current, pois, astro, air, weatherReqs, enrichReqs, nextCall >>
       ELSE fetchCurrentFor(location)
    /\ UNCHANGED op
    /\ UNCHANGED << location, geolocation, geoPending, suggestVars, recordVars, exportReqs >>

\* fetchCurrent(), the Get Weather button
fetchCurrent ==
    /\ IF Trim(location) = EmptyStr
       THEN /\ error' = <<"Please enter a location">>
            /\ UNCHANGED << current, pois, astro, air, weatherReqs, enrichReqs, nextCall >>
       ELSE fetchCurrentFor(location)
    /\ UNCHANGED op
    /\ UNCHANGED << location, geolocation, geoPending, suggestVars, recordVars, exportReqs >>

\* useMyLocation(), up to the callbacks of getCurrentPosition
useMyLocation ==
    /\ IF ~geolocation
       THEN /\ error' = <<"Geolocation not supported">>
            /\ UNCHANGED geoPending
       ELSE /\ nextCall + geoPending < MaxCalls
            /\ geoPending' = geoPending + 1
            /\ UNCHANGED error
    /\ UNCHANGED op
    /\ UNCHANGED << location, current, pois, astro, air, weatherReqs, enrichReqs,
                    geolocation, nextCall, suggestVars, recordVars, exportReqs >>

DigitChars == <<"0", "1", "2", "3", "4", "5", "6", "7", "8", "9">>

RECURSIVE NatToStr(_)
NatToStr(n) ==
    IF n < 10 THEN <<DigitChars[n + 1]>>
    ELSE NatToStr(n \div 10) \o <<DigitChars[(n % 10) + 1]>>

\* x.toFixed(4), x given in units of 0.00001, not on a rounding tie.
ToFixed4(x) ==
    LET a == IF x < 0 THEN -x ELSE x
        r == (a + 5) \div 10
        f == r % 10000
    IN  (IF x < 0 THEN <<"-">> ELSE << >>)
            \o NatToStr(r \div 10000) \o <<".">>
            \o <<DigitChars[(f \div 1000) + 1], DigitChars[((f \div 100) % 10) + 1],
                 DigitChars[((f \div 10) % 10) + 1], DigitChars[(f % 10) + 1]>>

\* The positions the browser can report, in units of 0.00001 degree.
GeoFixes == {[latitude |-> 4071283, longitude |-> -7400597]}

\* The success callback of getCurrentPosition
geoSuccess(pos) ==
    LET coords == ToFixed4(pos.latitude) \o <<",">> \o ToFixed4(pos.longitude) IN
    /\ geoPending > 0
    /\ geoPending' = geoPending - 1
    /\ location' = coords
    /\ fetchCurrentFor(coords)
    /\ UNCHANGED op
    /\ UNCHANGED << geolocation, suggestVars, recordVars, exportReqs >>

\* The error callback of getCurrentPosition: setError(err.message)
geoError(message) ==
    /\ geoPending > 0
    /\ geoPending' = geoPending - 1
    /\ error' = message
    /\ UNCHANGED op
    /\ UNCHANGED << location, current, pois, astro, air, weatherReqs, enrichReqs,
                    geolocation, nextCall, suggestVars, recordVars, exportReqs >>

\* The location input cleared, or overwritten with a blank.
ClearedInputs == {EmptyStr, <<" ">>}

\* The Get Weather button on an input the user edits.
NextGetWeather ==
    \/ \E v \in ClearedInputs : onChange(v)
    \/ fetchCurrent
    \/ \E w \in weatherReqs : \E res \in WeatherResults(w.call) : weatherSettled(w, res)
    \/ \E e \in enrichReqs : \E res \in EnrichResults(e) : enrichSettled(e, res)

NextWeather ==
    \/ fetchCurrent
    \/ useMyLocation
    \/ \E pos \in GeoFixes : geoSuccess(pos)
    \/ geoError(<<"User denied Geolocation">>)
    \/ \E w \in weatherReqs : \E res \in WeatherResults(w.call) : weatherSettled(w, res)
    \/ \E e \in enrichReqs : \E res \in EnrichResults(e) : enrichSettled(e, res)

---------------------------------------------------------------------------
(* The record store behind /api/records: specification 4.3 and 6 *)

MaxRecords == 1
MaxInFlight == 1

\* The days of October 2025 the two date inputs are set to.
StartDates == {1, 9}
EndDates == {5, 7}

ValidationError == [status |-> 422, body |-> <<LBrace, DetailKey, StrLit, RBrace>>]
NotFoundError == [status |-> 404, body |-> <<LBrace, DetailKey, StrLit, RBrace>>]
UpstreamError == [status |-> 503, body |-> <<LBrace, DetailKey, StrLit, RBrace>>]

RECURSIVE SortById(_)
SortById(S) ==
    IF S = {} THEN << >>
    ELSE LET m == CHOOSE r \in S : \A x \in S : r.id <= x.id
         IN  <<m>> \o SortById(S \ {m})

\* list(): all records, ordered by id ascending
list == [store |-> store, nextId |-> nextId, res |-> Returned(SortById(store))]

\* create(location_query, start_date, end_date)
create(q, s, e) ==
    IF s > e \/ Trim(q) = EmptyStr
    THEN [store |-> store, nextId |-> nextId, res |-> handle(ValidationError)]
    ELSE LET rec == [id |-> nextId, location |-> q, start_date |-> s, end_date |-> e]
         IN  [store |-> store \cup {rec}, nextId |-> nextId + 1, res |-> Returned(rec)]

\* update(id, location_query, start_date, end_date), every field supplied
update(id, q, s, e) ==
    IF \A r \in store : r.id # id
    THEN [store |-> store, nextId |-> nextId, res |-> handle(NotFoundError)]
    ELSE IF s > e \/ Trim(q) = EmptyStr
    THEN [store |-> store, nextId |-> nextId, res |-> handle(ValidationError)]
    ELSE LET rec == [id |-> id, location |-> q, start_date |-> s, end_date |-> e]
         IN  [store |-> {r \in store : r.id # id} \cup {rec}, nextId |-> nextId,
              res |-> Returned(rec)]

\* delete(id)
delete(id) ==
    IF \A r \in store : r.id # id
    THEN [store |-> store, nextId |-> nextId, res |-> handle(NotFoundError)]
    ELSE [store |-> {r \in store : r.id # id}, nextId |-> nextId,
          res |-> Returned([status |-> "ok"])]

\* A request that no response has been produced for yet.
Pending == [t |-> "pending"]

\* The server handles the request r and its response sets out.
serverHandles(r) ==
    LET out == CASE r.kind = "list" -> list
                 [] r.kind = "create" -> create(r.location, r.start_date, r.end_date)
                 [] r.kind = "update" -> update(r.id, r.location, r.start_date, r.end_date)
                 [] r.kind = "delete" -> delete(r.id)
    IN  /\ r.res = Pending
        /\ store' = out.store
        /\ nextId' = out.nextId
        /\ recordReqs' = (recordReqs \ {r}) \cup {[r EXCEPT !.res = out.res]}
        /\ UNCHANGED << location, error, records, selectedId, range, weatherVars,
                        suggestVars, exportReqs, op >>

\* The request r is answered 503: the geocoder, or the server itself, is unavailable.
serverFails(r) ==
    /\ r.res = Pending
    /\ recordReqs' = (recordReqs \ {r}) \cup {[r EXCEPT !.res = handle(UpstreamError)]}
    /\ UNCHANGED << location, error, records, selectedId, range, store, nextId,
                    weatherVars, suggestVars, exportReqs, op >>

---------------------------------------------------------------------------
(* App.jsx: saved records *)

\* The fetch of a record request; tag tells apart the requests in flight.
FreshTag(reqs) ==
    CHOOSE n \in 1..(Cardinality(reqs) + 1) :
        /\ \A r \in reqs : r.tag # n
        /\ \A m \in 1..(n - 1) : \E r \in reqs : r.tag = m

\* api.js createRecord(payload)
createRecord(tag, payload) ==
    [tag |-> tag, kind |-> "create", location |-> payload.location,
     start_date |-> payload.start_date, end_date |-> payload.end_date, res |-> Pending]

\* api.js listRecords()
listRecords(tag) == [tag |-> tag, kind |-> "list", res |-> Pending]

\* api.js updateRecord(id, payload)
updateRecord(tag, id, payload) ==
    [tag |-> tag, kind |-> "update", id |-> id, location |-> payload.location,
     start_date |-> payload.start_date, end_date |-> payload.end_date, res |-> Pending]

\* api.js deleteRecord(id)
deleteRecord(tag, id) == [tag |-> tag, kind |-> "delete", id |-> id, res |-> Pending]

\* refresh() up to its await, with reqs in flight: listRecords() is sent.
refresh(reqs) == reqs \cup {listRecords(FreshTag(reqs))}

\* refresh() after its await
listSettled(r) ==
    /\ r.kind = "list"
    /\ r.res # Pending
    /\ recordReqs' = recordReqs \ {r}
    /\ records' = IF r.res.ok THEN r.res.val ELSE records
    /\ UNCHANGED op
    /\ UNCHANGED << location, error, selectedId, range, store, nextId, weatherVars,
                    suggestVars, exportReqs >>

\* onCreate() that selects the record to be before the server has answered.
onCreate_Optimistic ==
    /\ Cardinality(recordReqs) < MaxInFlight
    /\ (nextId - 1) + Cardinality({r \in recordReqs : r.kind = "create" /\ r.res = Pending})
          < MaxRecords
    /\ recordReqs' = recordReqs \cup
          {createRecord(FreshTag(recordReqs),
                        [location |-> location, start_date |-> range.start,
                         end_date |-> range.end])}
    /\ selectedId' = Len(records) + 1
    /\ UNCHANGED op
    /\ UNCHANGED << location, error, records, range, store, nextId,
                    weatherVars, suggestVars, exportReqs >>

\* onCreate() up to its first await
onCreate ==
    /\ Cardinality(recordReqs) < MaxInFlight
    /\ (nextId - 1) + Cardinality({r \in recordReqs : r.kind = "create" /\ r.res = Pending})
          < MaxRecords
    /\ recordReqs' = recordReqs \cup
          {createRecord(FreshTag(recordReqs),
                        [location |-> location, start_date |-> range.start,
                         end_date |-> range.end])}
    /\ UNCHANGED op
    /\ UNCHANGED << location, error, records, selectedId, range, store, nextId,
                    weatherVars, suggestVars, exportReqs >>

\* onCreate() after createRecord settled
createSettled(r) ==
    /\ r.kind = "create"
    /\ r.res # Pending
    /\ IF r.res.ok
       THEN /\ selectedId' = r.res.val.id
            /\ recordReqs' = refresh(recordReqs \ {r})
            /\ UNCHANGED error
       ELSE /\ error' = cleanErr(r.res.message)
            /\ recordReqs' = recordReqs \ {r}
            /\ UNCHANGED selectedId
    /\ UNCHANGED op
    /\ UNCHANGED << location, records, range, store, nextId, weatherVars, suggestVars,
                    exportReqs >>

\* onUpdate() up to its await
onUpdate ==
    /\ IF selectedId = NoId
       THEN UNCHANGED << error, recordReqs >>
       ELSE /\ Cardinality(recordReqs) < MaxInFlight
            /\ error' = EmptyStr
            /\ recordReqs' = recordReqs \cup
                  {updateRecord(FreshTag(recordReqs), selectedId,
                                [location |-> location, start_date |-> range.start,
                                 end_date |-> range.end])}
    /\ UNCHANGED op
    /\ UNCHANGED << location, records, selectedId, range, store, nextId, weatherVars,
                    suggestVars, exportReqs >>

\* onUpdate() with the refresh in a finally.
updateSettled_AlwaysRefresh(r) ==
    /\ r.kind = "update"
    /\ r.res # Pending
    /\ recordReqs' = refresh(recordReqs \ {r})
    /\ error' = IF r.res.ok THEN error ELSE cleanErr(r.res.message)
    /\ UNCHANGED op
    /\ UNCHANGED << location, records, selectedId, range, store, nextId, weatherVars,
                    suggestVars, exportReqs >>

\* onUpdate() after updateRecord settled
updateSettled(r) ==
    /\ r.kind = "update"
    /\ r.res # Pending
    /\ IF r.res.ok
       THEN /\ recordReqs' = refresh(recordReqs \ {r})
            /\ UNCHANGED error
       ELSE /\ error' = cleanErr(r.res.message)
            /\ recordReqs' = recordReqs \ {r}
    /\ UNCHANGED op
    /\ UNCHANGED << location, records, selectedId, range, store, nextId, weatherVars,
                    suggestVars, exportReqs >>

\* onDelete() up to its await
onDelete ==
    /\ IF selectedId = NoId
       THEN UNCHANGED recordReqs
       ELSE /\ Cardinality(recordReqs) < MaxInFlight
            /\ recordReqs' = recordReqs \cup {deleteRecord(FreshTag(recordReqs), selectedId)}
    /\ UNCHANGED op
    /\ UNCHANGED << location, error, records, selectedId, range, store, nextId,
                    weatherVars, suggestVars, exportReqs >>

\* onDelete() after deleteRecord settled
deleteSettled(r) ==
    /\ r.kind = "delete"
    /\ r.res # Pending
    /\ IF r.res.ok
       THEN /\ selectedId' = NoId
            /\ recordReqs' = refresh(recordReqs \ {r})
            /\ UNCHANGED error
       ELSE /\ error' = cleanErr(r.res.message)
            /\ recordReqs' = recordReqs \ {r}
            /\ UNCHANGED selectedId
    /\ UNCHANGED op
    /\ UNCHANGED << location, records, range, store, nextId, weatherVars, suggestVars,
                    exportReqs >>

\* The radio of the i-th listed record: setSelectedId(r.id)
selectRecord(i) ==
    /\ selectedId' = records[i].id
    /\ UNCHANGED op
    /\ UNCHANGED << location, error, records, range, recordReqs, store, nextId,
                    weatherVars, suggestVars, exportReqs >>

\* The two date inputs: setRange(r=>({...r,start:v})), setRange(r=>({...r,end:v}))
setRangeStart(v) ==
    /\ range' = [range EXCEPT !.start = v]
    /\ UNCHANGED op
    /\ UNCHANGED << location, error, records, selectedId, recordReqs, store, nextId,
                    weatherVars, suggestVars, exportReqs >>

setRangeEnd(v) ==
    /\ range' = [range EXCEPT !.end = v]
    /\ UNCHANGED op
    /\ UNCHANGED << location, error, records, selectedId, recordReqs, store, nextId,
                    weatherVars, suggestVars, exportReqs >>

NextRecords ==
    \/ onCreate
    \/ onUpdate
    \/ onDelete
    \/ \E i \in 1..Len(records) : selectRecord(i)
    \/ \E v \in StartDates : setRangeStart(v)
    \/ \E v \in EndDates : setRangeEnd(v)
    \/ \E r \in recordReqs : serverHandles(r)
    \/ \E r \in recordReqs : serverFails(r)
    \/ \E r \in recordReqs : createSettled(r)
    \/ \E r \in recordReqs : updateSettled(r)
    \/ \E r \in recordReqs : deleteSettled(r)
    \/ \E r \in recordReqs : listSettled(r)

\* What localStorage can hold as the last location.
StoredLocations == {EmptyStr, <<"a", " ">>}

---------------------------------------------------------------------------
(* Initial state: the first render, with the refresh of the mount effect sent *)

Init ==
    /\ location \in StoredLocations
    /\ error = EmptyStr
    /\ current = NullVal
    /\ pois = EmptyList
    /\ astro = NullVal
    /\ air = NullVal
    /\ records = << >>
    /\ selectedId = NoId
    /\ range = [start |-> 1, end |-> 5]
    /\ cands = << >>
    /\ openSug = FALSE
    /\ typingTimer = NoTimer
    /\ timers = {}
    /\ weatherReqs = {}
    /\ enrichReqs = {}
    /\ searchReqs = 0
    /\ recordReqs = refresh({})
    /\ exportReqs = << >>
    /\ geolocation \in BOOLEAN
    /\ geoPending = 0
    /\ nextCall = 0
    /\ store = {}
    /\ nextId = 1
    /\ typedAge = 0
    /\ op = [name |-> "Init"]

\* An export button was clicked: the request of exportData(fmt) is in flight, and the
\* server will give it any of the responses.
InitExport ==
    /\ exportReqs \in {<<[fmt |-> fmt, resp |-> r]>> : fmt \in Fmts, r \in Responses}
    /\ location = EmptyStr
    /\ error = EmptyStr
    /\ current = NullVal
    /\ pois = EmptyList
    /\ astro = NullVal
    /\ air = NullVal
    /\ records = << >>
    /\ selectedId = NoId
    /\ range = [start |-> 1, end |-> 5]
    /\ cands = << >>
    /\ openSug = FALSE
    /\ typingTimer = NoTimer
    /\ timers = {}
    /\ weatherReqs = {}
    /\ enrichReqs = {}
    /\ searchReqs = 0
    /\ recordReqs = {}
    /\ geolocation = TRUE
    /\ geoPending = 0
    /\ nextCall = 0
    /\ store = {}
    /\ nextId = 1
    /\ typedAge = 0
    /\ op = [name |-> "onExport"]

SpecWeather == Init /\ [][NextWeather]_vars

\* NextGetWeather never reads navigator.geolocation.
InitGetWeather == Init /\ geolocation = TRUE

SpecGetWeather == InitGetWeather /\ [][NextGetWeather]_vars

SpecSuggest == Init /\ [][NextSuggest]_vars

SpecExport == InitExport /\ [][NextExport]_vars

\* The record handlers read the location and never navigator.geolocation.
InitRecords == Init /\ geolocation = TRUE /\ location # EmptyStr

SpecRecords == InitRecords /\ [][NextRecords]_vars

---------------------------------------------------------------------------
(* C3 *)

NonOkExport == op.name = "onExportSettled" /\ ~ResponseOk(op.resp)

WithoutWS(s) == SelectSeq(s, LAMBDA c : c \notin WS)

\* The values a `detail` member can hold in a body of BodyChars.
DetailValues ==
    {JStr(<<"m">>), JStr(EmptyStr), JArr, JObj(NoMembers)}
        \cup {JObj(<<v>>) : v \in {JStr(<<"m">>), JStr(EmptyStr), JArr, JObj(NoMembers)}}

\* The values v for which the body is the JSON object {"detail": v}.
DetailsIn(body) ==
    {v \in DetailValues :
        WithoutWS(body) = <<LBrace, DetailKey>> \o JSONStringify(v) \o <<RBrace>>}

Verbatim(v) == IF v.t = "str" THEN v.v ELSE JSONStringify(v)

HasBraceSpan(body) ==
    \E i, k \in 1..Len(body) : i < k /\ body[i] = LBrace /\ body[k] = RBrace

\* C3 as stated: after a non-2xx response the message shown is the `detail` of the
\* JSON error body verbatim if the body has one, and the raw response body
\* otherwise.
C3_DetailElseRawBody ==
    NonOkExport =>
        IF DetailsIn(op.resp.body) # {}
        THEN \A v \in DetailsIn(op.resp.body) : error = Verbatim(v)
        ELSE error = op.resp.body

\* C3 amended: after a non-2xx response, a JSON object body with a non-empty string
\* `detail` shows that string verbatim and one with a structured `detail` shows its
\* JSON serialisation; a JSON object body with no `detail` or an empty-string one,
\* and a body with no {...} span, shows the raw body less its leading whitespace;
\* an empty body shows "HTTP <status>" through handle and "Error" through the
\* non-JSON path of exportData.
C3_SurfacedMessage ==
    NonOkExport =>
        LET body == op.resp.body
            raw  == SkipWS(body)
        IN  /\ body = EmptyStr =>
                error = (IF op.fmt = "json" THEN HttpStatusText(op.resp) ELSE <<"Error">>)
            /\ \A v \in DetailsIn(body) :
                error = (IF Truthy(v) THEN Verbatim(v) ELSE raw)
            /\ WithoutWS(body) = <<LBrace, RBrace>> => error = raw
            /\ (body # EmptyStr /\ ~HasBraceSpan(body)) => error = raw

\* A non-2xx response whose body is {"detail":"m"} arrived and "m" is shown.
C3_Witness ==
    /\ NonOkExport
    /\ op.resp.body = <<LBrace, DetailKey, StrLit, RBrace>>
    /\ error = <<"m">>

---------------------------------------------------------------------------
(* C1 *)

\* C1: when an enrichment request of fetchCurrentFor settles, whatever its siblings
\* did and in whatever order, error and current keep their values and the sibling
\* requests stay in flight; a failure changes none of pois, astro, air, and a success
\* stores its payload (pois for nearby, astro for astronomy, air for air).
C1_EnrichmentIsolated ==
    [][\A e \in enrichReqs \ enrichReqs' : \A res \in EnrichResults(e) :
         enrichSettled(e, res) =>
            /\ error' = error
            /\ current' = current
            /\ enrichReqs' = enrichReqs \ {e}
            /\ weatherReqs' = weatherReqs
            /\ ~res.ok => (pois' = pois /\ astro' = astro /\ air' = air)
            /\ (res.ok /\ e.kind = "nearby") =>
                  pois' = (IF "items" \in DOMAIN res.val THEN res.val.items ELSE << >>)
            /\ (res.ok /\ e.kind = "astronomy") => astro' = res.val
            /\ (res.ok /\ e.kind = "air") => air' = res.val]_vars

\* The only call made has settled all three enrichments: astronomy is stored, air
\* quality and nearby places failed, the weather is shown and no error is.
C1_Witness ==
    /\ nextCall = 1
    /\ weatherReqs = {}
    /\ enrichReqs = {}
    /\ current # NullVal
    /\ HasCoords(current.resolved.latitude, current.resolved.longitude)
    /\ astro # NullVal
    /\ air = NullVal
    /\ pois = EmptyList
    /\ error = EmptyStr

---------------------------------------------------------------------------
(* C4 *)

\* C4: an enrichment request is sent only in the step in which the weather request of
\* its own call returns successfully, with the latitude and longitude of that
\* response, neither of them null; a weather request that fails (its response is not
\* the weather shown), or whose response lacks a coordinate, sends none.
C4_EnrichAfterWeather ==
    [][/\ \A e \in enrichReqs' \ enrichReqs :
            /\ \E w \in weatherReqs \ weatherReqs' : w.call = e.call
            /\ current' # NullVal
            /\ current'.call = e.call
            /\ e.lat = current'.resolved.latitude
            /\ e.lon = current'.resolved.longitude
            /\ e.lat # NoCoord
            /\ e.lon # NoCoord
       /\ \A w \in weatherReqs \ weatherReqs' :
            ( \/ current' = NullVal
              \/ current'.call # w.call
              \/ current'.resolved.latitude = NoCoord
              \/ current'.resolved.longitude = NoCoord )
            => enrichReqs' = enrichReqs]_vars

\* The weather of a call is shown and its three enrichment requests are in flight
\* with its coordinates.
C4_Witness ==
    /\ current # NullVal
    /\ {e.kind : e \in {x \in enrichReqs : x.call = current.call}} = Kinds
    /\ \A e \in enrichReqs :
          e.call = current.call =>
             e.lat = current.resolved.latitude /\ e.lon = current.resolved.longitude

---------------------------------------------------------------------------
(* C5 *)

IsBlank(s) == \A i \in 1..Len(s) : s[i] \in WS

\* C5: Get Weather with an empty or whitespace-only location shows 'Please enter a
\* location', sends no weather or enrichment request and leaves current, pois, astro
\* and air as they were.
C5_BlankRejected ==
    [][(fetchCurrent /\ IsBlank(location)) =>
          /\ error' = <<"Please enter a location">>
          /\ weatherReqs' = weatherReqs
          /\ enrichReqs' = enrichReqs
          /\ nextCall' = nextCall
          /\ current' = current
          /\ pois' = pois
          /\ astro' = astro
          /\ air' = air]_vars

\* Get Weather was pressed on a whitespace-only location after a weather was shown.
C5_Witness ==
    /\ location # EmptyStr
    /\ IsBlank(location)
    /\ error = <<"Please enter a location">>
    /\ current # NullVal
    /\ weatherReqs = {}

---------------------------------------------------------------------------
(* C8 *)

\* C8: a weather response of an earlier call that arrives after the response of a
\* later call does not replace the weather shown.
C8_NewerNotOverwritten ==
    [][\A w \in weatherReqs \ weatherReqs' :
         (current # NullVal /\ current.call > w.call) => current' = current]_vars

---------------------------------------------------------------------------
(* C9 *)

SameCoords(p) ==
    p.lat = current.resolved.latitude /\ p.lon = current.resolved.longitude

\* C9: whenever a weather is shown, each enrichment payload shown is empty or absent
\* or was fetched with the coordinates of the weather shown.
C9_PayloadsOfCurrent ==
    current # NullVal =>
        /\ \A i \in 1..Len(pois) : SameCoords(pois[i])
        /\ astro # NullVal => SameCoords(astro)
        /\ air # NullVal => SameCoords(air)

---------------------------------------------------------------------------
(* C2 *)

IsNumberText(n) ==
    LET u == IF n # << >> /\ Head(n) = "-" THEN Tail(n) ELSE n IN
    /\ u # << >>
    /\ u[1] \in Digits
    /\ \A i \in 1..Len(u) : u[i] \in Digits \cup {"."}
    /\ Cardinality({i \in 1..Len(u) : u[i] = "."}) <= 1

\* q is two numbers (sign, digits, at most one point after the first digit) around
\* one comma, with any whitespace around each.
IsCoordinatePair(q) ==
    \E i \in 1..Len(q) :
        /\ q[i] = ","
        /\ IsNumberText(Trim(SubSeq(q, 1, i - 1)))
        /\ IsNumberText(Trim(SubSeq(q, i + 1, Len(q))))

IsFiveDigitZip(q) ==
    LET s == Trim(q) IN Len(s) = 5 /\ \A i \in 1..Len(s) : s[i] \in Digits

IsFreeform(q) == ~IsBlank(q) /\ ~IsCoordinatePair(q) /\ ~IsFiveDigitZip(q)

\* C2: a suggestion timer is pending, and a timer fires into a searchLocations
\* request, only for a query that is non-blank and neither a coordinate pair nor a
\* five-digit ZIP; after the input changed to any other text no timer is pending, the
\* candidate list is empty and the suggestion box is closed.
C2_SearchOnlyFreeform ==
    /\ \A t \in timers : IsFreeform(t.q)
    /\ op.name = "suggestTimerFired" => IsFreeform(op.q)
    /\ (op.name = "onChange" /\ ~IsFreeform(location)) =>
          (timers = {} /\ cands = << >> /\ ~openSug)

\* A five-digit ZIP was completed while the timer of its first four digits was
\* pending: the timer is gone and no search was sent.
C2_Witness ==
    /\ op.name = "onChange"
    /\ IsFiveDigitZip(location)
    /\ typingTimer # NoTimer
    /\ timers = {}
    /\ searchReqs = 0
    /\ cands = << >>

---------------------------------------------------------------------------
(* C7 *)

\* C7: at most one suggestion timer is pending, it is the one of the latest change
\* of the input and has its full delay still to run from that change; a timer that
\* fires sends the search for the text the input has held for the whole delay.
C7_Debounced ==
    /\ Cardinality(timers) <= 1
    /\ \A t \in timers :
          /\ t.id = typingTimer
          /\ t.q = location
          /\ t.left + typedAge >= SuggestDelay
    /\ op.name = "suggestTimerFired" =>
          (op.q = location /\ typedAge >= SuggestDelay)

\* The timer fired for a two-character query: the timer of its first character was
\* replaced.
C7_Witness ==
    /\ op.name = "suggestTimerFired"
    /\ Len(op.q) = 2
    /\ isWordyQuery(SubSeq(op.q, 1, 1))
    /\ searchReqs = 1

---------------------------------------------------------------------------
(* C6 *)

RecordIds(S) == {r.id : r \in S}
ListedIds == {records[i].id : i \in 1..Len(records)}

\* C6: the step that answers an update request whose start_date is later than its
\* end_date answers it with an error and leaves the table of records as it was; and
\* the step of onUpdate that takes a rejected update out of flight sets the error
\* message, sends no refresh, and leaves records and selectedId as they were.
C6_RejectedUpdate ==
    [][\A r \in recordReqs \ recordReqs' :
          /\ ( /\ r.kind = "update"
               /\ r.res = Pending
               /\ r.start_date > r.end_date )
             => /\ store' = store
                /\ \E q \in recordReqs' : q.tag = r.tag /\ q.res # Pending /\ ~q.res.ok
          /\ ( /\ r.kind = "update"
               /\ r.res # Pending
               /\ ~r.res.ok )
             => /\ error' # EmptyStr
                /\ error' = cleanErr(r.res.message)
                /\ recordReqs' = recordReqs \ {r}
                /\ records' = records
                /\ selectedId' = selectedId]_vars

\* The selected record is stored and listed with a valid range, the date inputs hold
\* an invalid one, and the rejection is shown with nothing in flight.
C6_Witness ==
    /\ range.start > range.end
    /\ error = <<"m">>
    /\ recordReqs = {}
    /\ records = SortById(store)
    /\ selectedId \in RecordIds(store)
    /\ \A r \in store : r.start_date <= r.end_date

---------------------------------------------------------------------------
(* C10 *)

\* C10 as claimed: in every reachable state selectedId is null or the id of a record
\* in the displayed list.
C10_SelectedIsListed == selectedId = NoId \/ selectedId \in ListedIds

\* C10: in every reachable state selectedId is null or an id the record store has
\* assigned, and every update and delete request in flight is for such an id.
C10_SelectedWasAssigned ==
    /\ selectedId # NoId => selectedId \in 1..(nextId - 1)
    /\ \A r \in recordReqs :
          r.kind \in {"update", "delete"} => r.id \in 1..(nextId - 1)

\* Delete is in flight for a selected record that is neither listed nor stored.
C10_Witness ==
    /\ selectedId # NoId
    /\ selectedId \notin ListedIds
    /\ selectedId \notin RecordIds(store)
    /\ \E r \in recordReqs : r.kind = "delete" /\ r.id = selectedId /\ r.res = Pending

=============================================================================
